---- MODULE Spec2Model ----
(***************************************************************************)
(* A model of the NZ spelling converter (NZSpellingConverter).             *)
(*                                                                         *)
(* Text is a sequence of characters; a character is a one-character        *)
(* string (the em dash U+2014 is the character EmDash).  The converter's   *)
(* regular-expression replacements are modelled by left-to-right scans     *)
(* that do what String.prototype.replace does with the /g flag.            *)
(*                                                                         *)
(* The helpers shared by the two variants of the converter (in-memory      *)
(* custom mappings, persisted corrections) are the same text in both; the  *)
(* model follows the in-memory variant.  Each specification below runs one *)
(* method on inputs drawn from a bounded set:                              *)
(*   SpecIse       applyIseConversions                                     *)
(*   SpecCase      matchPhraseCase                                         *)
(*   SpecMap       applyMappings                                           *)
(*   SpecCurrency  protectCurrencySymbols, translate, restoreCurrencySymbols *)
(*   SpecConvert   convert                                                 *)
(*   SpecWalk      convertObject                                           *)
(*   SpecLiteral   applyMappings and restoreCurrencySymbols on `$` texts   *)
(*   SpecCorrections  convert of the converter with persisted corrections  *)
(*   SpecHttp      the POST /convert handler                               *)
(*   SpecMappings  the POST /mappings handler                              *)
(*   SpecHeap      convertObject on values held by reference               *)
(* Three specifications interleave the turns of asynchronous calls:          *)
(*   SpecAsync     initialize, convert, convertObject and the updates of   *)
(*                 the custom mappings on one converter                    *)
(*   SpecServer    startServer and the operations on the persisted         *)
(*                 corrections, with their writes of the corrections file  *)
(*   SpecLazy      convert on a converter with persisted corrections that  *)
(*                 was not initialized, and the operations around it       *)
(* A definition named X_Variant is X with a fault seeded, used to see that *)
(* a property depends on X.                                                *)
(***************************************************************************)
EXTENDS Integers, Sequences, FiniteSets, TLC

VARIABLES
    phraseMap,       \* this.phraseMap: list of <<phrase, replacement>> in key order
    exceptionsMap,   \* this.exceptionsMap
    customMappings,  \* this.customMappings
    gbDictionary,    \* this.gbDictionary: [isNull, words]
    usDictionary,    \* this.usDictionary: [isNull, words]
    initialized,     \* this.initialized
    translator,      \* the word table of the external translate() capability
    corrections,     \* this.corrections (the converter with persisted corrections)
    correctionsFile, \* data/corrections.json: [readable, entries]
    calls,           \* the asynchronous calls in progress, by call id
    loads,           \* how often the dictionaries and the corrections file were loaded
    listening,       \* app.listen has run
    op,              \* the method that ran last
    arg,             \* its arguments
    ret              \* its return value

vars == <<phraseMap, exceptionsMap, customMappings, gbDictionary, usDictionary,
          initialized, translator, corrections, correctionsFile, calls, loads,
          listening, op, arg, ret>>

----------------------------------------------------------------------------
(* Characters and case conversion (ASCII).                                 *)

LowerLetters ==
    <<"a","b","c","d","e","f","g","h","i","j","k","l","m",
      "n","o","p","q","r","s","t","u","v","w","x","y","z">>

UpperLetters ==
    <<"A","B","C","D","E","F","G","H","I","J","K","L","M",
      "N","O","P","Q","R","S","T","U","V","W","X","Y","Z">>

Digits == {"0","1","2","3","4","5","6","7","8","9"}

EmDash == "u2014"

Range(s) == {s[i] : i \in DOMAIN s}

LowerSet == Range(LowerLetters)
UpperSet == Range(UpperLetters)

\* [A-Za-z]
IsLetter(c) == c \in LowerSet \cup UpperSet

\* \w of a JavaScript regular expression: [A-Za-z0-9_]
IsWordChar(c) == IsLetter(c) \/ c \in Digits \/ c = "_"

IndexIn(letters, c) == CHOOSE i \in DOMAIN letters : letters[i] = c

UpperChar(c) == IF c \in LowerSet THEN UpperLetters[IndexIn(LowerLetters, c)] ELSE c

LowerChar(c) == IF c \in UpperSet THEN LowerLetters[IndexIn(UpperLetters, c)] ELSE c

\* String.prototype.toUpperCase / toLowerCase
ToUpperCase(s) == [i \in DOMAIN s |-> UpperChar(s[i])]

ToLowerCase(s) == [i \in DOMAIN s |-> LowerChar(s[i])]

\* s.slice(from) with a 0-based index, as in src.slice(1)
Slice(s, from) == SubSeq(s, from + 1, Len(s))

RECURSIVE Flatten(_)
Flatten(ss) == IF ss = <<>> THEN <<>> ELSE Head(ss) \o Flatten(Tail(ss))

\* All texts made of at most n chunks of a vocabulary.
TextsOf(vocab, n) == {Flatten(cs) : cs \in UNION {[1..k -> vocab] : k \in 0..n}}

EndsWith(s, suffix) ==
    /\ Len(suffix) <= Len(s)
    /\ SubSeq(s, Len(s) - Len(suffix) + 1, Len(s)) = suffix

\* Is `sub` found in s at position p (1-based)?
OccursAt(s, sub, p) ==
    /\ p >= 1
    /\ p + Len(sub) - 1 <= Len(s)
    /\ SubSeq(s, p, p + Len(sub) - 1) = sub

----------------------------------------------------------------------------
(* matchCase: the single-word case transfer.                               *)

\* matchCase without its all-uppercase branch
MatchCase_NoUpper(src, replacement) ==
    IF UpperChar(src[1]) = src[1] /\ ToLowerCase(Slice(src, 1)) = Slice(src, 1)
    THEN <<UpperChar(replacement[1])>> \o Slice(replacement, 1)
    ELSE replacement

MatchCase(src, replacement) ==
    IF ToUpperCase(src) = src
    THEN ToUpperCase(replacement)
    ELSE IF UpperChar(src[1]) = src[1] /\ ToLowerCase(Slice(src, 1)) = Slice(src, 1)
         THEN <<UpperChar(replacement[1])>> \o Slice(replacement, 1)
         ELSE replacement

----------------------------------------------------------------------------
(* Dictionaries: cspell dictionaries queried with { ignoreCase: true }.    *)

NullDictionary == [isNull |-> TRUE, words |-> {}]

LoadedDictionary(ws) == [isNull |-> FALSE, words |-> ws]

DictHas(dict, word) == ToLowerCase(word) \in dict.words

----------------------------------------------------------------------------
(* applyIseConversions                                                     *)

Suffixes ==
    << << <<"i","z","a","t","i","o","n","s">>, <<"i","s","a","t","i","o","n","s">> >>,
       << <<"i","z","a","t","i","o","n">>,     <<"i","s","a","t","i","o","n">> >>,
       << <<"i","z","e","r","s">>,             <<"i","s","e","r","s">> >>,
       << <<"i","z","e","r">>,                 <<"i","s","e","r">> >>,
       << <<"i","z","i","n","g">>,             <<"i","s","i","n","g">> >>,
       << <<"i","z","e","d">>,                 <<"i","s","e","d">> >>,
       << <<"i","z","e","s">>,                 <<"i","s","e","s">> >>,
       << <<"i","z","e">>,                     <<"i","s","e">> >> >>

\* lower.replace(new RegExp(`${from}$`), to), for a lower that ends with from
ReplaceSuffix(lower, from, to) == SubSeq(lower, 1, Len(lower) - Len(from)) \o to

\* the test without the US dictionary
AcceptRewrite_GbOnly(lower, candidate, gb, us) == DictHas(gb, candidate)

\* the dual-dictionary test of the suffix loop
AcceptRewrite(lower, candidate, gb, us) ==
    DictHas(us, lower) /\ DictHas(gb, candidate)

RECURSIVE SuffixLoop(_, _, _, _, _)
SuffixLoop(word, lower, i, gb, us) ==
    IF i > Len(Suffixes)
    THEN word
    ELSE LET from == Suffixes[i][1]
             to   == Suffixes[i][2]
         IN  IF ~EndsWith(lower, from)
             THEN SuffixLoop(word, lower, i + 1, gb, us)
             ELSE LET candidate == ReplaceSuffix(lower, from, to)
                  IN  IF AcceptRewrite(lower, candidate, gb, us)
                      THEN MatchCase(word, candidate)
                      ELSE SuffixLoop(word, lower, i + 1, gb, us)

\* no early return
AlreadyGb_Never(lower, gb) == FALSE

\* the early return for a token the GB dictionary already has
AlreadyGb(lower, gb) == DictHas(gb, lower)

\* the replace callback, run on one token
IseWord(word, gb, us) ==
    LET lower == ToLowerCase(word)
    IN  IF AlreadyGb(lower, gb) THEN word ELSE SuffixLoop(word, lower, 1, gb, us)

\* the last position of the run of letters that starts at p
LetterRunEnd(s, p) ==
    CHOOSE q \in p..Len(s) :
        /\ \A k \in p..q : IsLetter(s[k])
        /\ (q = Len(s) \/ ~IsLetter(s[q + 1]))

\* the last position of the token /[A-Za-z]+(?:'[A-Za-z]+)?/ that starts at p
TokenEnd(s, p) ==
    LET q == LetterRunEnd(s, p)
    IN  IF q + 2 <= Len(s) /\ s[q + 1] = "'" /\ IsLetter(s[q + 2])
        THEN LetterRunEnd(s, q + 2)
        ELSE q

RECURSIVE IseScan(_, _, _, _)
IseScan(s, p, gb, us) ==
    IF p > Len(s)
    THEN <<>>
    ELSE IF IsLetter(s[p])
         THEN LET q == TokenEnd(s, p)
              IN  IseWord(SubSeq(s, p, q), gb, us) \o IseScan(s, q + 1, gb, us)
         ELSE <<s[p]>> \o IseScan(s, p + 1, gb, us)

ApplyIseConversions(text, gb, us) == IseScan(text, 1, gb, us)

----------------------------------------------------------------------------
(* Regular expressions: the patterns the converter builds are sequences of *)
(* atoms, each a word-boundary assertion, a literal or the wildcard.       *)

RegExpSpecials == {".", "*", "+", "?", "^", "$", "{", "}", "(", ")", "|", "[", "]", "\\"}

\* no escaping
EscapeRegExp_None(text) == text

\* text.replace(/[.*+?^${}()|[\]\\]/g, '\\$&')
EscapeRegExp(text) ==
    Flatten([i \in DOMAIN text |->
                IF text[i] \in RegExpSpecials THEN <<"\\", text[i]>> ELSE <<text[i]>>])

BoundaryAtom == [kind |-> "b", c |-> ""]
AnyAtom == [kind |-> "any", c |-> ""]
LitAtom(ch) == [kind |-> "lit", c |-> ch]

\* new RegExp(source): `\b` is the word-boundary assertion, any other `\c` the
\* literal c, an unescaped `.` the wildcard, and a plain character itself.
RECURSIVE ParsePattern(_)
ParsePattern(source) ==
    IF source = <<>>
    THEN <<>>
    ELSE IF Head(source) = "\\" /\ Len(source) >= 2
         THEN (IF source[2] = "b" THEN <<BoundaryAtom>> ELSE <<LitAtom(source[2])>>)
              \o ParsePattern(SubSeq(source, 3, Len(source)))
         ELSE (IF Head(source) = "." THEN <<AnyAtom>> ELSE <<LitAtom(Head(source))>>)
              \o ParsePattern(Tail(source))

\* \b holds before position p when exactly one of s[p-1], s[p] is a word character
WordBoundary(s, p) ==
    LET before == p > 1 /\ p - 1 <= Len(s) /\ IsWordChar(s[p - 1])
        after  == p >= 1 /\ p <= Len(s) /\ IsWordChar(s[p])
    IN  before # after

\* Match atoms[i..] at position p of s, ignoring case when ci (flag i): the
\* position after the match, or 0 when there is none.
RECURSIVE MatchFrom(_, _, _, _, _)
MatchFrom(s, atoms, i, p, ci) ==
    IF i > Len(atoms)
    THEN p
    ELSE LET a == atoms[i]
         IN  IF a.kind = "b"
             THEN IF WordBoundary(s, p) THEN MatchFrom(s, atoms, i + 1, p, ci) ELSE 0
             ELSE IF /\ p <= Len(s)
                     /\ \/ a.kind = "any"
                        \/ s[p] = a.c
                        \/ ci /\ UpperChar(s[p]) = UpperChar(a.c)
                  THEN MatchFrom(s, atoms, i + 1, p + 1, ci)
                  ELSE 0

\* The replacement text of replace(regex, string): `$$` inserts one `$` and `$&`
\* the matched text (the converter's patterns have no capture groups).
RECURSIVE GetSubstitution(_, _)
GetSubstitution(replacement, matched) ==
    IF replacement = <<>>
    THEN <<>>
    ELSE IF Head(replacement) = "$" /\ Len(replacement) >= 2 /\ replacement[2] = "$"
         THEN <<"$">> \o GetSubstitution(SubSeq(replacement, 3, Len(replacement)), matched)
         ELSE IF Head(replacement) = "$" /\ Len(replacement) >= 2 /\ replacement[2] = "&"
              THEN matched \o GetSubstitution(SubSeq(replacement, 3, Len(replacement)), matched)
              ELSE <<Head(replacement)>> \o GetSubstitution(Tail(replacement), matched)

\* s.replace(/source/g, replacement) for a pattern that matches no empty text
RECURSIVE ReplaceAll(_, _, _, _)
ReplaceAll(s, atoms, replacement, p) ==
    IF p > Len(s)
    THEN <<>>
    ELSE LET e == MatchFrom(s, atoms, 1, p, FALSE)
         IN  IF e = 0
             THEN <<s[p]>> \o ReplaceAll(s, atoms, replacement, p + 1)
             ELSE GetSubstitution(replacement, SubSeq(s, p, e - 1))
                  \o ReplaceAll(s, atoms, replacement, e)

----------------------------------------------------------------------------
(* titleCase and matchPhraseCase                                           *)

\* text.split(' ')
RECURSIVE Split(_)
Split(s) ==
    IF \A i \in DOMAIN s : s[i] # " "
    THEN <<s>>
    ELSE LET k == CHOOSE i \in DOMAIN s :
                      s[i] = " " /\ \A j \in 1..(i - 1) : s[j] # " "
         IN  <<SubSeq(s, 1, k - 1)>> \o Split(SubSeq(s, k + 1, Len(s)))

\* words.join(' ')
RECURSIVE Join(_)
Join(ws) ==
    IF Len(ws) = 0 THEN <<>>
    ELSE IF Len(ws) = 1 THEN ws[1]
    ELSE ws[1] \o <<" ">> \o Join(Tail(ws))

TitleWord(word) ==
    IF word # <<>>
    THEN <<UpperChar(word[1])>> \o ToLowerCase(Slice(word, 1))
    ELSE word

TitleCase(text) ==
    LET words == Split(text)
    IN  Join([i \in DOMAIN words |-> TitleWord(words[i])])

IsTitle(src) ==
    LET words == Split(src)
    IN  \A i \in DOMAIN words :
            IF words[i] # <<>>
            THEN /\ UpperChar(words[i][1]) = words[i][1]
                 /\ ToLowerCase(Slice(words[i], 1)) = Slice(words[i], 1)
            ELSE FALSE

\* the single-word rules of matchCase in place of the phrase rules
MatchPhraseCase_AsMatchCase(src, replacement) ==
    IF ToUpperCase(src) = src
    THEN ToUpperCase(replacement)
    ELSE IF src # <<>> /\ replacement # <<>> /\ UpperChar(src[1]) = src[1]
            /\ ToLowerCase(Slice(src, 1)) = Slice(src, 1)
         THEN <<UpperChar(replacement[1])>> \o Slice(replacement, 1)
         ELSE replacement

MatchPhraseCase(src, replacement) ==
    IF ToUpperCase(src) = src
    THEN ToUpperCase(replacement)
    ELSE IF ToLowerCase(src) = src
         THEN ToLowerCase(replacement)
         ELSE IF IsTitle(src) THEN TitleCase(replacement) ELSE replacement

----------------------------------------------------------------------------
(* applyMappings / applyCorrections.  A table is the list of its           *)
(* <<phrase, replacement>> pairs in Object.keys order (insertion order:    *)
(* no phrase of the model is an integer-like key).                         *)

Keys(mappings) == {mappings[i][1] : i \in DOMAIN mappings}

Lookup(mappings, phrase) ==
    mappings[CHOOSE i \in DOMAIN mappings : mappings[i][1] = phrase][2]

\* the entries in Object.keys order, not sorted
SortEntries_Unsorted(entries) == entries

\* entries.sort((a, b) => b.phrase.length - a.phrase.length): a stable sort
SortEntries(entries) ==
    LET rank(i) == 1 + Cardinality({j \in DOMAIN entries :
                         \/ Len(entries[j][1]) > Len(entries[i][1])
                         \/ Len(entries[j][1]) = Len(entries[i][1]) /\ j < i})
    IN  [k \in DOMAIN entries |-> entries[CHOOSE i \in DOMAIN entries : rank(i) = k]]

\* new RegExp(`\\b${this.escapeRegExp(phrase)}\\b`, 'gi')
PhraseRegExp(phrase) ==
    ParsePattern(<<"\\", "b">> \o EscapeRegExp(phrase) \o <<"\\", "b">>)

\* a replacement computed by a function: the patterns `$&`, `$$` of the returned
\* text are expanded as in a replacement string
CallbackSubstitution_AsPattern(result, matched) == GetSubstitution(result, matched)

\* replace(regex, fn): the text fn returns is inserted as it is
CallbackSubstitution(result, matched) == result

\* updated.replace(regex, (match) => this.matchPhraseCase(match, replacement))
RECURSIVE ReplacePhrase(_, _, _, _)
ReplacePhrase(s, atoms, replacement, p) ==
    IF p > Len(s) + 1
    THEN <<>>
    ELSE LET e == MatchFrom(s, atoms, 1, p, TRUE)
             rest == IF p <= Len(s) THEN <<s[p]>> ELSE <<>>
         IN  IF e = 0
             THEN rest \o ReplacePhrase(s, atoms, replacement, p + 1)
             ELSE IF e = p
                  THEN CallbackSubstitution(MatchPhraseCase(<<>>, replacement), <<>>)
                       \o rest \o ReplacePhrase(s, atoms, replacement, p + 1)
                  ELSE CallbackSubstitution(
                           MatchPhraseCase(SubSeq(s, p, e - 1), replacement),
                           SubSeq(s, p, e - 1))
                       \o ReplacePhrase(s, atoms, replacement, e)

ApplyEntry(text, entry) == ReplacePhrase(text, PhraseRegExp(entry[1]), entry[2], 1)

\* a loop in which an entry is matched only while the text is still the original
RECURSIVE ApplyEntries_OriginalOnly(_, _, _)
ApplyEntries_OriginalOnly(text, entries, k) ==
    IF k = 0
    THEN text
    ELSE LET earlier == ApplyEntries_OriginalOnly(text, entries, k - 1)
         IN  IF earlier # text THEN earlier ELSE ApplyEntry(earlier, entries[k])

\* the text after the first k entries of the loop have been applied
RECURSIVE ApplyEntries(_, _, _)
ApplyEntries(text, entries, k) ==
    IF k = 0
    THEN text
    ELSE ApplyEntry(ApplyEntries(text, entries, k - 1), entries[k])

ApplyMappings(text, mappings) ==
    LET entries == SortEntries(mappings)
    IN  ApplyEntries(text, entries, Len(entries))

----------------------------------------------------------------------------
(* The character normalizer.                                               *)

\* text.replace(/—/g, ' - ')
ReplaceEmDash(text) == ReplaceAll(text, ParsePattern(<<EmDash>>), <<" ", "-", " ">>, 1)

DollarToken == <<"[", "[", "D", "O", "L", "L", "A", "R", "]", "]">>

\* text.replace(/\$/g, '[[DOLLAR]]')
ProtectCurrencySymbols(text) == ReplaceAll(text, ParsePattern(<<"\\", "$">>), DollarToken, 1)

\* text.replace(new RegExp('\\[\\[DOLLAR\\]\\]', 'g'), '$$')
RestoreCurrencySymbols(text) ==
    ReplaceAll(text,
               ParsePattern(<<"\\", "[", "\\", "[", "D", "O", "L", "L", "A", "R",
                              "\\", "]", "\\", "]">>),
               <<"$", "$">>, 1)

----------------------------------------------------------------------------
(* translate(): the external US -> UK translator, a word-level             *)
(* substitution by a table of lowercase words.                             *)

RECURSIVE TranslateScan(_, _, _)
TranslateScan(s, p, table) ==
    IF p > Len(s)
    THEN <<>>
    ELSE IF IsLetter(s[p])
         THEN LET q == LetterRunEnd(s, p)
                  word == SubSeq(s, p, q)
                  lower == ToLowerCase(word)
              IN  (IF lower \in Keys(table)
                   THEN MatchCase(word, Lookup(table, lower))
                   ELSE word) \o TranslateScan(s, q + 1, table)
         ELSE <<s[p]>> \o TranslateScan(s, p + 1, table)

Translate(text, table) == TranslateScan(text, 1, table)

----------------------------------------------------------------------------
(* Words and texts of the model.                                           *)

organize == <<"o","r","g","a","n","i","z","e">>
organise == <<"o","r","g","a","n","i","s","e">>
prizes == <<"p","r","i","z","e","s">>
prises == <<"p","r","i","s","e","s">>

MaxIseChunks == 3

IseChunks ==
    { organize, <<"O","r","g","a","n","i","z","e">>, ToUpperCase(organize),
      <<"P","R","i","z","e","s">>, <<" ">>, <<"'">> }

IseTexts == TextsOf(IseChunks, MaxIseChunks)

GbWordChoices == SUBSET {organize, organise, prizes, prises}

UsWordChoices == SUBSET {organize, prizes}

----------------------------------------------------------------------------
(* The state of a converter: the constructor, and a converter whose         *)
(* initialize() has completed.                                             *)

Constructed ==
    /\ customMappings = <<>>
    /\ gbDictionary = NullDictionary
    /\ usDictionary = NullDictionary
    /\ initialized = FALSE

Loaded(gbWords, usWords) ==
    /\ gbDictionary = LoadedDictionary(gbWords)
    /\ usDictionary = LoadedDictionary(usWords)
    /\ initialized = TRUE

converterVars == <<phraseMap, exceptionsMap, customMappings, corrections,
                   gbDictionary, usDictionary, initialized, translator>>

\* what lies around the converter: the corrections file, the calls in progress,
\* the count of loads, the HTTP listener
processVars == <<correctionsFile, calls, loads, listening>>

\* no corrections file, no call in progress, nothing loaded, not listening
NoProcess ==
    /\ correctionsFile = [readable |-> FALSE, entries |-> <<>>]
    /\ calls = <<>>
    /\ loads = [dictionaries |-> 0, corrections |-> 0]
    /\ listening = FALSE

----------------------------------------------------------------------------
(* applyIseConversions, applied to a text on an initialized converter.     *)

InitIse ==
    /\ phraseMap = <<>>
    /\ exceptionsMap = <<>>
    /\ customMappings = <<>>
    /\ translator = <<>>
    /\ \E gbWords \in GbWordChoices, usWords \in UsWordChoices : Loaded(gbWords, usWords)
    /\ corrections = <<>>
    /\ NoProcess
    /\ op = "start"
    /\ arg \in IseTexts
    /\ ret = <<>>

ApplyIseConversionsCall ==
    /\ op = "start"
    /\ op' = "applyIseConversions"
    /\ ret' = ApplyIseConversions(arg, gbDictionary, usDictionary)
    /\ UNCHANGED <<arg, converterVars, processVars>>

NextIse == ApplyIseConversionsCall

SpecIse == InitIse /\ [][NextIse]_vars

\* the <<first, last>> positions of the word tokens of s, found from position p on
RECURSIVE TokenSpans(_, _)
TokenSpans(s, p) ==
    IF p > Len(s)
    THEN {}
    ELSE IF IsLetter(s[p])
         THEN {<<p, TokenEnd(s, p)>>} \cup TokenSpans(s, TokenEnd(s, p) + 1)
         ELSE TokenSpans(s, p + 1)

\* the candidates of a lowercased token: its -ize-family suffix replaced
Candidates(lower) ==
    {ReplaceSuffix(lower, Suffixes[i][1], Suffixes[i][2]) :
        i \in {j \in DOMAIN Suffixes : EndsWith(lower, Suffixes[j][1])}}

Corroborated(lower) ==
    /\ lower \in usDictionary.words
    /\ \E c \in Candidates(lower) : c \in gbDictionary.words

IseDone == op = "applyIseConversions"

\* C1: applyIseConversions changes a character of the text only inside a word
\* token whose lowercased form is in the US dictionary and whose candidate (suffix
\* replaced) is in the GB dictionary; every other token is output unchanged.
C1_DualDictionary ==
    IseDone =>
        /\ Len(ret) = Len(arg)
        /\ \A p \in DOMAIN arg :
              ret[p] # arg[p] =>
                 \E span \in TokenSpans(arg, 1) :
                    /\ span[1] <= p /\ p <= span[2]
                    /\ Corroborated(ToLowerCase(SubSeq(arg, span[1], span[2])))

\* a token ending in -ize that neither dictionary has went through the rewriter
C1_Witness ==
    /\ IseDone
    /\ \E span \in TokenSpans(arg, 1) :
          LET lower == ToLowerCase(SubSeq(arg, span[1], span[2]))
          IN  /\ EndsWith(lower, <<"i","z","e">>)
              /\ lower \notin usDictionary.words \cup gbDictionary.words
    /\ \E span \in TokenSpans(arg, 1) :
          /\ Corroborated(ToLowerCase(SubSeq(arg, span[1], span[2])))
          /\ SubSeq(ret, span[1], span[2]) # SubSeq(arg, span[1], span[2])

\* C2: every word token whose lowercased form is in the GB dictionary is emitted
\* character for character, casing included.
C2_GbWordUnchanged ==
    IseDone =>
        /\ Len(ret) = Len(arg)
        /\ \A span \in TokenSpans(arg, 1) :
              ToLowerCase(SubSeq(arg, span[1], span[2])) \in gbDictionary.words
                 => SubSeq(ret, span[1], span[2]) = SubSeq(arg, span[1], span[2])

\* a mixed-case GB word ending in -ize that the US dictionary has too, and whose
\* candidate the GB dictionary has, came out unchanged
C2_Witness ==
    /\ IseDone
    /\ \E span \in TokenSpans(arg, 1) :
          LET word == SubSeq(arg, span[1], span[2])
          IN  /\ ToLowerCase(word) \in gbDictionary.words
              /\ Corroborated(ToLowerCase(word))
              /\ word # ToLowerCase(word)
              /\ SubSeq(ret, span[1], span[2]) = word

NoLowerCase(word) == \A i \in DOMAIN word : word[i] \notin LowerSet

Capitalised(word) ==
    /\ word[1] \in UpperSet
    /\ \A i \in 2..Len(word) : word[i] \notin UpperSet

\* the candidate in the casing class of the source token
InCasingOf(word, candidate) ==
    IF NoLowerCase(word)
    THEN [i \in DOMAIN candidate |-> UpperChar(candidate[i])]
    ELSE IF Capitalised(word)
         THEN [i \in DOMAIN candidate |-> IF i = 1 THEN UpperChar(candidate[i]) ELSE candidate[i]]
         ELSE candidate

Accepted(lower) == lower \notin gbDictionary.words /\ Corroborated(lower)

\* C9: a rewritten token is the candidate in the token's casing class (all
\* uppercase, first letter capitalised, or else lowercase); a token that is not
\* rewritten is emitted unchanged.
C9_RewriteKeepsCasing ==
    IseDone =>
        /\ Len(ret) = Len(arg)
        /\ \A span \in TokenSpans(arg, 1) :
              LET word == SubSeq(arg, span[1], span[2])
                  lower == ToLowerCase(word)
                  out == SubSeq(ret, span[1], span[2])
              IN  IF Accepted(lower)
                  THEN \A c \in Candidates(lower) : out = InCasingOf(word, c)
                  ELSE out = word

\* an all-uppercase token and a capitalised one were both rewritten
C9_Witness ==
    /\ IseDone
    /\ \E s1 \in TokenSpans(arg, 1), s2 \in TokenSpans(arg, 1) :
          LET w1 == SubSeq(arg, s1[1], s1[2])
              w2 == SubSeq(arg, s2[1], s2[2])
          IN  /\ NoLowerCase(w1) /\ Accepted(ToLowerCase(w1))
              /\ Capitalised(w2) /\ Accepted(ToLowerCase(w2))
              /\ SubSeq(ret, s1[1], s1[2]) = ToUpperCase(organise)
              /\ SubSeq(ret, s2[1], s2[2]) = <<"O">> \o Tail(organise)

----------------------------------------------------------------------------
(* matchPhraseCase, applied to a matched source span and a replacement.    *)

zip == <<"z","i","p">>
zipCode == <<"z","i","p"," ","c","o","d","e">>
postcode == <<"p","o","s","t","c","o","d","e">>

MaxSrcChunks == 2

SrcChunks ==
    { zip, <<"Z","i","p">>, <<"Z","I","P">>, <<"z","I","p">>,
      <<" ","c","o","d","e">>, <<" ","C","o","d","e">>, <<" ","C","O","D","E">>,
      <<" ">>, <<"2","4">> }

Replacements ==
    { postcode, <<"P","o","s","t"," ","c","O","d","e">>, <<"X">>, <<"n","z"," "," ","p">> }

InitCase ==
    /\ phraseMap = <<>>
    /\ exceptionsMap = <<>>
    /\ translator = <<>>
    /\ Constructed
    /\ corrections = <<>>
    /\ NoProcess
    /\ op = "start"
    /\ arg \in [src : TextsOf(SrcChunks, MaxSrcChunks), replacement : Replacements]
    /\ ret = <<>>

MatchPhraseCaseCall ==
    /\ op = "start"
    /\ op' = "matchPhraseCase"
    /\ ret' = MatchPhraseCase(arg.src, arg.replacement)
    /\ UNCHANGED <<arg, converterVars, processVars>>

NextCase == MatchPhraseCaseCall

SpecCase == InitCase /\ [][NextCase]_vars

NoUpperCase(s) == \A i \in DOMAIN s : s[i] \notin UpperSet

WordStart(s, i) == s[i] # " " /\ (i = 1 \/ s[i - 1] = " ")

\* every space-separated word has an uppercase first letter and a lowercase remainder
TitleCaseSource(s) ==
    /\ s # <<>>
    /\ s[1] # " " /\ s[Len(s)] # " "
    /\ \A i \in 2..Len(s) : ~(s[i] = " " /\ s[i - 1] = " ")
    /\ \A i \in DOMAIN s :
          s[i] # " " => IF WordStart(s, i) THEN s[i] \in UpperSet ELSE s[i] \notin UpperSet

\* every space-separated word of r title-cased
TitleCased(r) ==
    [i \in DOMAIN r |-> IF WordStart(r, i) THEN UpperChar(r[i]) ELSE LowerChar(r[i])]

CaseDone == op = "matchPhraseCase"

\* C8: matchPhraseCase, rules in order: a source with no lowercase letter gives
\* the replacement uppercased; otherwise a source with no uppercase letter gives
\* the replacement lowercased; otherwise a source whose space-separated words
\* each have an uppercase first letter and a lowercase remainder gives the
\* replacement with every word title-cased.
C8_PhraseCaseRules ==
    CaseDone =>
        LET src == arg.src
            r == arg.replacement
        IN  /\ NoLowerCase(src) => ret = [i \in DOMAIN r |-> UpperChar(r[i])]
            /\ ~NoLowerCase(src) /\ NoUpperCase(src)
                  => ret = [i \in DOMAIN r |-> LowerChar(r[i])]
            /\ ~NoLowerCase(src) /\ ~NoUpperCase(src) /\ TitleCaseSource(src)
                  => ret = TitleCased(r)

\* a two-word title-case source gave a mixed-case, two-word replacement title-cased
C8_Witness ==
    /\ CaseDone
    /\ arg.src = <<"Z","i","p"," ","C","o","d","e">>
    /\ arg.replacement = <<"P","o","s","t"," ","c","O","d","e">>
    /\ ret = <<"P","o","s","t"," ","C","o","d","e">>

\* C23: a source that is neither all-uppercase, all-lowercase nor title-case
\* (as matchPhraseCase tests them) gives the replacement with its first letter
\* capitalised when the first letter of the source is a capital and the rest of
\* the source is lowercase, and the replacement unchanged otherwise.
C23_MixedCaseFallback ==
    CaseDone =>
        LET src == arg.src
            r == arg.replacement
            mixed == /\ ToUpperCase(src) # src
                     /\ ToLowerCase(src) # src
                     /\ ~IsTitle(src)
            firstOnly == /\ src[1] \in UpperSet
                         /\ ToLowerCase(Slice(src, 1)) = Slice(src, 1)
        IN  /\ mixed /\ firstOnly => ret = <<UpperChar(r[1])>> \o Slice(r, 1)
            /\ mixed /\ ~firstOnly => ret = r

----------------------------------------------------------------------------
(* applyMappings, applied to a text and a mapping table.                   *)

cPlus == <<"c","+">>
zipCPlus == <<"z","i","p"," ","c","+">>

MaxEntries == 2
MaxMapChunks == 2

MapKeys == { zip, zipCode, cPlus, zipCPlus }

MapReplacements == { <<"X">>, postcode, zip }

MapChunks ==
    { zip, <<"Z","I","P">>, <<" ","c","o","d","e">>, <<" ","c","+">>, <<"i","z","e">>, cPlus }

\* the tables of at most n entries, in every insertion order
Tables(keys, replacements, n) ==
    {t \in UNION {[1..k -> keys \X replacements] : k \in 0..n} :
        \A i, j \in DOMAIN t : i # j => t[i][1] # t[j][1]}

InitMap ==
    /\ phraseMap = <<>>
    /\ exceptionsMap = <<>>
    /\ translator = <<>>
    /\ Constructed
    /\ corrections = <<>>
    /\ NoProcess
    /\ op = "start"
    /\ arg \in [text : TextsOf(MapChunks, MaxMapChunks),
                mappings : Tables(MapKeys, MapReplacements, MaxEntries)]
    /\ ret = <<>>

ApplyMappingsCall ==
    /\ op = "start"
    /\ op' = "applyMappings"
    /\ ret' = ApplyMappings(arg.text, arg.mappings)
    /\ UNCHANGED <<arg, converterVars, processVars>>

NextMap == ApplyMappingsCall

SpecMap == InitMap /\ [][NextMap]_vars

MapDone == op = "applyMappings"

\* the phrase occurs in text at position p, case-insensitively
OccursAtCI(text, phrase, p) == OccursAt(ToLowerCase(text), ToLowerCase(phrase), p)

\* short is a whole-word part of the longer phrase long
WholeWordPart(short, long) ==
    /\ Len(short) < Len(long)
    /\ \E p \in DOMAIN long :
          /\ OccursAtCI(long, short, p)
          /\ (p = 1 \/ ~IsWordChar(long[p - 1]))
          /\ (p + Len(short) > Len(long) \/ ~IsWordChar(long[p + Len(short)]))

PositionOf(entries, phrase) == CHOOSE i \in DOMAIN entries : entries[i][1] = phrase

\* the phrase's pattern matches the text from its first to its last character
MatchesWhole(text, phrase) ==
    MatchFrom(text, PhraseRegExp(phrase), 1, 1, TRUE) = Len(text) + 1

C24_SequentialOverBuffer ==
    MapDone =>
        LET entries == SortEntries(arg.mappings)
        IN  \A i, j \in DOMAIN entries :
                LET mid == MatchPhraseCase(arg.text, entries[i][2])
                    final == MatchPhraseCase(mid, entries[j][2])
                IN  /\ i < j
                    /\ MatchesWhole(arg.text, entries[i][1])
                    /\ MatchesWhole(mid, entries[j][1])
                    /\ \A k \in DOMAIN entries \ {i, j} :
                          \A t \in {arg.text, mid, final} : ApplyEntry(t, entries[k]) = t
                    => ret = final

\* "zip code" became "zip" under the first entry and "x" under the second
C24_Witness ==
    /\ MapDone
    /\ arg.mappings = << <<zip, <<"X">> >>, <<zipCode, zip>> >>
    /\ arg.text = zipCode
    /\ ret = <<"x">>

\* an occurrence of the phrase with a letter immediately before or after it
InsideLongerWord(text, phrase, p) ==
    \/ p > 1 /\ IsLetter(text[p - 1])
    \/ p + Len(phrase) <= Len(text) /\ IsLetter(text[p + Len(phrase)])

\* C5: applyMappings replaces whole-word occurrences only: when every occurrence
\* of every phrase of the table has a letter immediately before or after it,
\* nothing is replaced.
C5_WholeWordOnly ==
    MapDone =>
        ((\A phrase \in Keys(arg.mappings) : \A p \in DOMAIN arg.text :
              OccursAtCI(arg.text, phrase, p) => InsideLongerWord(arg.text, phrase, p))
            => ret = arg.text)

----------------------------------------------------------------------------
(* Currency protection around the translator: protectCurrencySymbols,      *)
(* translate, restoreCurrencySymbols, as convert runs them on a text.      *)

color == <<"c","o","l","o","r">>
colour == <<"c","o","l","o","u","r">>

MaxCurrencyChunks == 3

CurrencyChunks ==
    { <<"$">>, <<"[","[">>, <<"D","O","L","L","A","R">>, <<"]","]">>, <<"5">>, color }

\* word tables of the translator: none, and color -> colour
TranslatorChoices == { <<>>, << <<color, colour>> >> }

InitCurrency ==
    /\ phraseMap = <<>>
    /\ exceptionsMap = <<>>
    /\ translator \in TranslatorChoices
    /\ Constructed
    /\ corrections = <<>>
    /\ NoProcess
    /\ op = "start"
    /\ arg \in TextsOf(CurrencyChunks, MaxCurrencyChunks)
    /\ ret = <<>>

ProtectStep ==
    /\ op = "start"
    /\ op' = "protectCurrencySymbols"
    /\ ret' = ProtectCurrencySymbols(arg)
    /\ UNCHANGED <<arg, converterVars, processVars>>

TranslateStep ==
    /\ op = "protectCurrencySymbols"
    /\ op' = "translate"
    /\ ret' = Translate(ret, translator)
    /\ UNCHANGED <<arg, converterVars, processVars>>

RestoreStep ==
    /\ op = "translate"
    /\ op' = "restoreCurrencySymbols"
    /\ ret' = RestoreCurrencySymbols(ret)
    /\ UNCHANGED <<arg, converterVars, processVars>>

NextCurrency == ProtectStep \/ TranslateStep \/ RestoreStep

SpecCurrency == InitCurrency /\ [][NextCurrency]_vars

DollarCount(s) == Cardinality({i \in DOMAIN s : s[i] = "$"})

\* C6: protect -> translate -> restore is lossless: with a translator that changes
\* nothing the restored text is the input text, and with any translator it has
\* exactly as many `$` as the input.
C6_CurrencyRoundTrip ==
    op = "restoreCurrencySymbols" =>
        /\ translator = <<>> => ret = arg
        /\ DollarCount(ret) = DollarCount(arg)

----------------------------------------------------------------------------
(* convert: the pipeline of the converter with in-memory custom mappings.  *)

ApplyPhraseReplacements(text, pm) == ApplyMappings(text, pm)

ApplyExceptionReplacements(text, em) == ApplyMappings(text, em)

ApplyCustomMappings(text, cm) == ApplyMappings(text, cm)

Convert(text, pm, em, cm, table, gb, us) ==
    LET normalized == ReplaceEmDash(text)
        phraseAdjusted == ApplyPhraseReplacements(normalized, pm)
        exceptionAdjusted == ApplyExceptionReplacements(phraseAdjusted, em)
        customAdjusted == ApplyCustomMappings(exceptionAdjusted, cm)
        protectedCurrency == ProtectCurrencySymbols(customAdjusted)
        translated == Translate(protectedCurrency, table)
        restoredCurrency == RestoreCurrencySymbols(translated)
        restoredExceptions == ApplyExceptionReplacements(restoredCurrency, em)
        restoredCustom == ApplyCustomMappings(restoredExceptions, cm)
        finalPhrases == ApplyPhraseReplacements(restoredCustom, pm)
    IN  ApplyIseConversions(finalPhrases, gb, us)

\* convert on this converter, once initialize() has completed (the call then
\* runs to its return without awaiting)
ConvertText(text) ==
    Convert(text, phraseMap, exceptionsMap, customMappings, translator,
            gbDictionary, usDictionary)

MaxConvertChunks == 2
MaxCustomMappings == 1

ConvertChunks ==
    { zip, <<" ","c","o","d","e">>, organize, <<"C","o","l","o","r">>, <<"$","5">>, <<EmDash>> }

\* data/phrase_map.json and data/spelling_exceptions.json, as an installation may
\* hold them
PhraseMapChoices == { <<>>, << <<zipCode, postcode>> >>, << <<zip, <<"X">> >> >> }

ExceptionsMapChoices == { <<>>, << <<organize, organize>> >>, << <<color, color>> >> }

CustomKeys == { zipCode, color }

CustomReplacements == { postcode, <<"h","u","e">>, zip }

\* the dictionaries as loaded by initialize()
GbWords == { organise, colour, postcode }

UsWords == { organize, color }

InitConvert ==
    /\ phraseMap \in PhraseMapChoices
    /\ exceptionsMap \in ExceptionsMapChoices
    /\ customMappings \in Tables(CustomKeys, CustomReplacements, MaxCustomMappings)
    /\ translator \in TranslatorChoices
    /\ Loaded(GbWords, UsWords)
    /\ corrections = <<>>
    /\ NoProcess
    /\ op = "start"
    /\ arg \in TextsOf(ConvertChunks, MaxConvertChunks)
    /\ ret = <<>>

ConvertCall ==
    /\ op = "start"
    /\ op' = "convert"
    /\ ret' = ConvertText(arg)
    /\ UNCHANGED <<arg, converterVars, processVars>>

NextConvert == ConvertCall

SpecConvert == InitConvert /\ [][NextConvert]_vars

ConvertDone == op = "convert"

\* the text comes through convert unchanged
SurvivesConvert(text) == ConvertText(text) = text

\* C4: across the tables of one convert call the longer phrase is replaced first:
\* when a custom mapping's phrase is the text and a shorter key of the phrase map
\* or the exceptions map is a whole-word part of it, the text is replaced by the
\* custom mapping's replacement (which the rest of the pipeline leaves alone).
C4_LongestFirstAcrossTables ==
    ConvertDone =>
        \A long \in Keys(customMappings) :
            LET replaced == MatchPhraseCase(arg, Lookup(customMappings, long))
            IN  /\ ToLowerCase(arg) = long
                /\ \E short \in Keys(phraseMap) \cup Keys(exceptionsMap) :
                      WholeWordPart(short, long)
                /\ SurvivesConvert(replaced)
                => ret = replaced

\* C10: a word of the exceptions map is never translated downstream: when the
\* text is an exceptions-map word that no other table has a phrase for, the output
\* is the word as the exceptions map gives it (stated here for the words the
\* translator itself leaves alone, so that only the converter's own stages act).
C10_ExceptionsNotTranslated ==
    ConvertDone =>
        \A word \in Keys(exceptionsMap) :
            LET given == MatchPhraseCase(arg, Lookup(exceptionsMap, word))
            IN  /\ ToLowerCase(arg) = word
                /\ Translate(given, translator) = given
                /\ ApplyMappings(arg, phraseMap) = arg
                /\ ApplyMappings(arg, customMappings) = arg
                /\ ApplyMappings(given, phraseMap) = given
                /\ ApplyMappings(given, customMappings) = given
                => ret = given

\* C11: a custom mapping overrides the phrase map: when both tables hold the
\* phrase that is the text, with different replacements, the output of convert
\* is the custom mapping's replacement in the casing of the text (for texts the
\* translator leaves alone and replacements the pipeline leaves alone).
C11_CustomOverridesPhraseMap ==
    ConvertDone =>
        \A phrase \in Keys(customMappings) \cap Keys(phraseMap) :
            LET custom == MatchPhraseCase(arg, Lookup(customMappings, phrase))
            IN  /\ ToLowerCase(arg) = phrase
                /\ Lookup(customMappings, phrase) # Lookup(phraseMap, phrase)
                /\ Translate(arg, translator) = arg
                /\ SurvivesConvert(custom)
                => ret = custom

\* the order of the README's "How It Works": every table once, ahead of the
\* translation, and nothing but the -ise conversion after it
DocumentedOrder(text) ==
    LET normalized == ReplaceEmDash(text)
        phraseAdjusted == ApplyPhraseReplacements(normalized, phraseMap)
        exceptionAdjusted == ApplyExceptionReplacements(phraseAdjusted, exceptionsMap)
        customAdjusted == ApplyCustomMappings(exceptionAdjusted, customMappings)
        translated == RestoreCurrencySymbols(
                          Translate(ProtectCurrencySymbols(customAdjusted), translator))
    IN  [beforeTranslation |-> customAdjusted,
         converted |-> ApplyIseConversions(translated, gbDictionary, usDictionary)]

\* C21: convert applies em-dash normalisation, phrase replacements, spelling
\* exceptions, custom mappings, translation and the -ise conversion in that order,
\* each once, and no table after the translation (stated for the texts whose
\* translation stage changes nothing, so that only the converter's own stages
\* act).
C21_DocumentedOrder ==
    ConvertDone =>
        LET documented == DocumentedOrder(arg)
        IN  Translate(documented.beforeTranslation, translator)
                = documented.beforeTranslation
            => ret = documented.converted

----------------------------------------------------------------------------
(* convert: the pipeline of the converter with persisted corrections.      *)

ApplyCorrections(text, corr) == ApplyMappings(text, corr)

\* the corrections applied before the translation instead of after it
ConvertWithCorrections_CorrectionsFirst(text, corr, table, gb, us) ==
    LET normalized == ReplaceEmDash(text)
        corrected == ApplyCorrections(normalized, corr)
        protectedCurrency == ProtectCurrencySymbols(corrected)
        translated == Translate(protectedCurrency, table)
        restoredCurrency == RestoreCurrencySymbols(translated)
    IN  ApplyIseConversions(restoredCurrency, gb, us)

ConvertWithCorrections(text, corr, table, gb, us) ==
    LET normalized == ReplaceEmDash(text)
        protectedCurrency == ProtectCurrencySymbols(normalized)
        translated == Translate(protectedCurrency, table)
        restoredCurrency == RestoreCurrencySymbols(translated)
        corrected == ApplyCorrections(restoredCurrency, corr)
    IN  ApplyIseConversions(corrected, gb, us)

MaxCorrectionChunks == 2
MaxCorrections == 1

CorrectionChunks ==
    { color, <<"C","o","l","o","u","r">>, organize, <<" ">>, <<"$","5">>, <<EmDash>> }

CorrectionKeys == { color, colour, organise }

CorrectionReplacements == { <<"h","u","e">>, organize }

InitCorrections ==
    /\ phraseMap = <<>>
    /\ exceptionsMap = <<>>
    /\ customMappings = <<>>
    /\ corrections \in Tables(CorrectionKeys, CorrectionReplacements, MaxCorrections)
    /\ translator \in TranslatorChoices
    /\ Loaded(GbWords, UsWords)
    /\ NoProcess
    /\ op = "start"
    /\ arg \in TextsOf(CorrectionChunks, MaxCorrectionChunks)
    /\ ret = <<>>

ConvertWithCorrectionsCall ==
    /\ op = "start"
    /\ op' = "convert"
    /\ ret' = ConvertWithCorrections(arg, corrections, translator,
                                     gbDictionary, usDictionary)
    /\ UNCHANGED <<arg, converterVars, processVars>>

NextCorrections == ConvertWithCorrectionsCall

SpecCorrections == InitCorrections /\ [][NextCorrections]_vars

\* C20: the converter with persisted corrections applies its stages in the order
\* em-dash normalisation, `$` protection, translation, `$` restoration,
\* corrections, -ize -> -ise rewriting: the output of convert is
\* applyIseConversions(applyCorrections(restore(translate(protect(replaceEmDash(t)))))).
C20_StageOrder ==
    op = "convert" =>
        ret = ApplyIseConversions(
                  ApplyCorrections(
                      RestoreCurrencySymbols(
                          Translate(ProtectCurrencySymbols(ReplaceEmDash(arg)),
                                    translator)),
                      corrections),
                  gbDictionary, usDictionary)

\* a correction for "color" is not applied to "color", which the translator has
\* turned into "colour" by the time the corrections run
C20_Witness ==
    /\ op = "convert"
    /\ arg = color
    /\ translator = << <<color, colour>> >>
    /\ corrections = << <<color, <<"h","u","e">> >> >>
    /\ ret = colour

----------------------------------------------------------------------------
(* Replacement texts that hold `$`: applyMappings with replacements that   *)
(* look like replacement patterns, and restoreCurrencySymbols.             *)

MaxLiteralChunks == 2
MaxLiteralEntries == 1

LiteralKeys == { zip, color }

DollarReplacements == { <<"$","1">>, <<"$","&">>, <<"$","$">>, <<"U","S","$","&","1">> }

LiteralChunks ==
    { zip, <<"Z","i","p">>, <<"C","O","L","O","R">>, <<" ">>, <<"$">>, DollarToken }

InitLiteral ==
    /\ phraseMap = <<>>
    /\ exceptionsMap = <<>>
    /\ translator = <<>>
    /\ Constructed
    /\ corrections = <<>>
    /\ NoProcess
    /\ op = "start"
    /\ arg \in [text : TextsOf(LiteralChunks, MaxLiteralChunks),
                mappings : Tables(LiteralKeys, DollarReplacements, MaxLiteralEntries)]
    /\ ret = <<>>

ApplyDollarMappingsCall ==
    /\ op = "start"
    /\ op' = "applyMappings"
    /\ ret' = ApplyMappings(arg.text, arg.mappings)
    /\ UNCHANGED <<arg, converterVars, processVars>>

RestoreCurrencySymbolsCall ==
    /\ op = "start"
    /\ op' = "restoreCurrencySymbols"
    /\ ret' = RestoreCurrencySymbols(arg.text)
    /\ UNCHANGED <<arg, converterVars, processVars>>

NextLiteral == ApplyDollarMappingsCall \/ RestoreCurrencySymbolsCall

SpecLiteral == InitLiteral /\ [][NextLiteral]_vars

\* the number of occurrences of the sentinel in s (no two of them overlap)
SentinelCount(s) == Cardinality({p \in DOMAIN s : OccursAt(s, DollarToken, p)})

\* C19: replacement values are substituted literally.  When the pattern of a
\* phrase of the table matches the whole text, applyMappings returns the
\* replacement, `$` sequences included, in the casing of the text; and
\* restoreCurrencySymbols puts exactly one `$` in the place of each sentinel.
C19_LiteralReplacement ==
    /\ op = "applyMappings" =>
          \A phrase \in Keys(arg.mappings) :
              MatchesWhole(arg.text, phrase)
                  => /\ ret = MatchPhraseCase(arg.text, Lookup(arg.mappings, phrase))
                     /\ DollarCount(ret) = DollarCount(Lookup(arg.mappings, phrase))
                     /\ Len(ret) = Len(Lookup(arg.mappings, phrase))
    /\ op = "restoreCurrencySymbols" =>
          /\ DollarCount(ret) = DollarCount(arg.text) + SentinelCount(arg.text)
          /\ Len(ret) = Len(arg.text) - (Len(DollarToken) - 1) * SentinelCount(arg.text)
          /\ SentinelCount(ret) = 0

\* "Zip" under the entry zip -> "$&" came out as "$&", not as "Zip"
C19_Witness ==
    /\ op = "applyMappings"
    /\ arg.text = <<"Z","i","p">>
    /\ arg.mappings = << <<zip, <<"$","&">> >> >>
    /\ ret = <<"$","&">>

----------------------------------------------------------------------------
(* convertObject / walkAsync.  A JSON value is [type, v]: v is the text of *)
(* a string, number or boolean leaf, the list of the elements of an array, *)
(* or the list of the <<key, value>> entries of an object in               *)
(* Object.entries order.                                                   *)

StringLeaf(text) == [type |-> "string", v |-> text]
ArrayOf(items) == [type |-> "array", v |-> items]
ObjectOf(entries) == [type |-> "object", v |-> entries]

RECURSIVE WalkAsync(_)

\* a walker that converts the keys of objects as well
WalkAsync_KeysToo(value) ==
    IF value.type = "array"
    THEN ArrayOf([i \in DOMAIN value.v |-> WalkAsync(value.v[i])])
    ELSE IF value.type = "object"
         THEN ObjectOf([i \in DOMAIN value.v |->
                          <<ConvertText(value.v[i][1]), WalkAsync(value.v[i][2])>>])
         ELSE IF value.type = "string" THEN StringLeaf(ConvertText(value.v)) ELSE value

\* walkAsync(value, (text) => this.convert(text)); Promise.all keeps the order
WalkAsync(value) ==
    IF value.type = "array"
    THEN ArrayOf([i \in DOMAIN value.v |-> WalkAsync(value.v[i])])
    ELSE IF value.type = "object"
         THEN ObjectOf([i \in DOMAIN value.v |->
                          <<value.v[i][1], WalkAsync(value.v[i][2])>>])
         ELSE IF value.type = "string" THEN StringLeaf(ConvertText(value.v)) ELSE value

MaxNodes == 4

JsonLeaves ==
    { StringLeaf(<<"C","o","l","o","r">>), StringLeaf(organize),
      [type |-> "number", v |-> <<"4","2">>],
      [type |-> "boolean", v |-> <<"t","r","u","e">>],
      [type |-> "null", v |-> <<>>] }

ObjectKeys == { color, <<"b">> }

\* the lists of n distinct keys
KeyLists(n) == {ks \in [1..n -> ObjectKeys] : \A i, j \in 1..n : i # j => ks[i] # ks[j]}

RECURSIVE JsonValues(_), JsonLists(_)

\* the lists of JSON values with m nodes in all
JsonLists(m) ==
    IF m = 0
    THEN {<<>>}
    ELSE UNION {{<<x>> \o rest : x \in JsonValues(k), rest \in JsonLists(m - k)} : k \in 1..m}

\* the JSON values with exactly n nodes
JsonValues(n) ==
    (IF n = 1 THEN JsonLeaves ELSE {})
    \cup {ArrayOf(items) : items \in JsonLists(n - 1)}
    \cup UNION {{ObjectOf([i \in DOMAIN items |-> <<ks[i], items[i]>>]) :
                    ks \in KeyLists(Len(items))} : items \in JsonLists(n - 1)}

JsonValuesUpTo(n) == UNION {JsonValues(k) : k \in 1..n}

InitWalk ==
    /\ phraseMap = << <<zipCode, postcode>> >>
    /\ exceptionsMap = <<>>
    /\ customMappings \in { <<>>, << <<color, <<"h","u","e">> >> >> }
    /\ translator = << <<color, colour>> >>
    /\ Loaded(GbWords, UsWords)
    /\ corrections = <<>>
    /\ NoProcess
    /\ op = "start"
    /\ arg \in JsonValuesUpTo(MaxNodes)
    /\ ret = <<>>

ConvertObjectCall ==
    /\ op = "start"
    /\ op' = "convertObject"
    /\ ret' = WalkAsync(arg)
    /\ UNCHANGED <<arg, converterVars, processVars>>

NextWalk == ConvertObjectCall

SpecWalk == InitWalk /\ [][NextWalk]_vars

\* out has the structure of in: arrays element for element, objects entry for
\* entry under the same keys, string leaves converted, other leaves identical
RECURSIVE Faithful(_, _)
Faithful(in, out) ==
    IF in.type = "array"
    THEN /\ out.type = "array"
         /\ Len(out.v) = Len(in.v)
         /\ \A i \in DOMAIN in.v : Faithful(in.v[i], out.v[i])
    ELSE IF in.type = "object"
         THEN /\ out.type = "object"
              /\ Len(out.v) = Len(in.v)
              /\ \A i \in DOMAIN in.v :
                    /\ out.v[i][1] = in.v[i][1]
                    /\ Faithful(in.v[i][2], out.v[i][2])
         ELSE IF in.type = "string"
              THEN out.type = "string" /\ out.v = ConvertText(in.v)
              ELSE out = in

\* C7: convertObject keeps the structure of every JSON value: array length and
\* order, object keys and their order (keys are not converted), number, boolean
\* and null leaves identical, and every string leaf replaced by convert(leaf).
C7_WalkerFidelity == op = "convertObject" => Faithful(arg, ret)

\* an object under a convertible key holding an array of a string that convert
\* changes and a number
C7_Witness ==
    /\ op = "convertObject"
    /\ arg = ObjectOf(<< <<color, ArrayOf(<<StringLeaf(organize),
                                           [type |-> "number", v |-> <<"4","2">>]>>)>> >>)
    /\ ret = ObjectOf(<< <<color, ArrayOf(<<StringLeaf(organise),
                                           [type |-> "number", v |-> <<"4","2">>]>>)>> >>)

----------------------------------------------------------------------------
(* POST /convert.  The body of a request is [text, data], each a JSON      *)
(* value or undefined (the field is absent); the response is the status,   *)
(* the message of an error, the converter method the handler invoked and   *)
(* the converted value.                                                    *)

Undefined == [type |-> "undefined", v |-> <<>>]

\* !value is false
Truthy(value) ==
    CASE value.type = "undefined" -> FALSE
      [] value.type = "null" -> FALSE
      [] value.type = "boolean" -> value.v = <<"t","r","u","e">>
      [] value.type = "number" -> value.v # <<"0">>
      [] value.type = "string" -> value.v # <<>>
      [] OTHER -> TRUE

\* a typeof under which every value is a string
TypeOf_AlwaysString(value) == "string"

\* typeof value
TypeOf(value) ==
    CASE value.type = "undefined" -> "undefined"
      [] value.type = "boolean" -> "boolean"
      [] value.type = "number" -> "number"
      [] value.type = "string" -> "string"
      [] OTHER -> "object"

BadRequest(message) ==
    [status |-> 400, message |-> message, invoked |-> "none", converted |-> Undefined]

Converted(method, value) ==
    [status |-> 200, message |-> "", invoked |-> method, converted |-> value]

\* app.post('/convert', ...) on a converter that startServer has initialized
PostConvertHandler(body) ==
    IF ~Truthy(body.text) /\ ~Truthy(body.data)
    THEN BadRequest("Either \"text\" (string) or \"data\" (object/array) is required")
    ELSE IF body.text # Undefined
         THEN IF TypeOf(body.text) # "string"
              THEN BadRequest("\"text\" must be a string")
              ELSE Converted("convert", StringLeaf(ConvertText(body.text.v)))
         ELSE Converted("convertObject", WalkAsync(body.data))

MaxBodyNodes == 2

\* the falsy values of JSON besides null
FalsyLeaves ==
    { StringLeaf(<<>>), [type |-> "number", v |-> <<"0">>],
      [type |-> "boolean", v |-> <<"f","a","l","s","e">>] }

BodyValues == {Undefined} \cup FalsyLeaves \cup JsonValuesUpTo(MaxBodyNodes)

InitHttp ==
    /\ phraseMap = << <<zipCode, postcode>> >>
    /\ exceptionsMap = <<>>
    /\ customMappings = <<>>
    /\ translator = << <<color, colour>> >>
    /\ Loaded(GbWords, UsWords)
    /\ corrections = <<>>
    /\ NoProcess
    /\ op = "start"
    /\ arg \in [text : BodyValues, data : BodyValues]
    /\ ret = <<>>

PostConvert ==
    /\ op = "start"
    /\ op' = "POST /convert"
    /\ ret' = PostConvertHandler(arg)
    /\ UNCHANGED <<arg, converterVars, processVars>>

NextHttp == PostConvert

SpecHttp == InitHttp /\ [][NextHttp]_vars

\* C18: a request whose `text` field is present and is not a string is answered
\* with status 400 and convert is not invoked for it, whether or not a `data`
\* field is present.
C18_NonStringTextRejected ==
    op = "POST /convert" =>
        (arg.text # Undefined /\ arg.text.type # "string"
            => ret.status = 400 /\ ret.invoked = "none")

\* text is the number 0 and data an array of a string: the first test of the
\* handler lets the request through and the typeof test rejects it
C18_Witness ==
    /\ op = "POST /convert"
    /\ arg.text = [type |-> "number", v |-> <<"0">>]
    /\ arg.data = ArrayOf(<<StringLeaf(organize)>>)
    /\ ret.status = 400
    /\ ret.message = "\"text\" must be a string"

\* C26: a request whose `text` field is a string, the empty string included, is
\* answered with status 200 and convert(text), and its `data` field is ignored.
C26_StringTextConverted ==
    op = "POST /convert" =>
        (arg.text.type = "string"
            => /\ ret.status = 200
               /\ ret.invoked = "convert"
               /\ ret.converted = StringLeaf(ConvertText(arg.text.v)))

----------------------------------------------------------------------------
(* Asynchronous calls on one converter with in-memory custom mappings.     *)
(* JavaScript runs one turn at a time: a call runs from its invocation, or *)
(* from the settling of the promise it awaits, to its next await or its    *)
(* return, and nothing else runs in between.  Each action below is one     *)
(* turn.  A call is [method, input, pc, outputs, seen, result]:            *)
(*   pc       "idle", "import" (initialize awaits import('cspell-lib')),   *)
(*            "load" (initialize awaits the two getDictionary promises),   *)
(*            "resume" (initialize has resolved, the caller's continuation *)
(*            is due), "walk" (string leaves are left to convert),         *)
(*            "resolved", "rejected"                                       *)
(*   outputs  the converted string leaves so far, in the order of the walk *)
(*   seen     what each of those conversions read: the custom mappings,    *)
(*            `initialized`, and whether each dictionary was loaded        *)

MaxCalls == 2

CallIds == 1..MaxCalls

\* the string leaves of a value in the order walkAsync reaches them
RECURSIVE Leaves(_)
Leaves(value) ==
    IF value.type = "array"
    THEN Flatten([i \in DOMAIN value.v |-> Leaves(value.v[i])])
    ELSE IF value.type = "object"
         THEN Flatten([i \in DOMAIN value.v |-> Leaves(value.v[i][2])])
         ELSE IF value.type = "string" THEN <<value.v>> ELSE <<>>

\* the value walkAsync resolves to, given the converted leaves in walk order
RECURSIVE Rebuild(_, _)
Rebuild(value, outs) ==
    LET children == IF value.type = "array"
                    THEN value.v
                    ELSE [i \in DOMAIN value.v |-> value.v[i][2]]
        before(i) == Len(Flatten([j \in 1..(i - 1) |-> Leaves(children[j])]))
        part(i) == SubSeq(outs, before(i) + 1, before(i) + Len(Leaves(children[i])))
    IN  IF value.type = "array"
        THEN ArrayOf([i \in DOMAIN value.v |-> Rebuild(value.v[i], part(i))])
        ELSE IF value.type = "object"
             THEN ObjectOf([i \in DOMAIN value.v |->
                              <<value.v[i][1], Rebuild(value.v[i][2], part(i))>>])
             ELSE IF value.type = "string" THEN StringLeaf(outs[1]) ELSE value

\* a walker that awaits the conversion of a leaf before it starts the next
LeavesPerTurn_One(n) == IF n > 0 THEN 1 ELSE 0

\* walkAsync calls transform on every leaf before its first await, and convert,
\* once initialized, runs to its return without awaiting: of the n leaves left,
\* all are converted in the turn
LeavesPerTurn(n) == n

\* a convert that does not wait for initialize
AwaitsInitialize_Never == FALSE

\* if (!this.initialized) { await this.initialize(); }
AwaitsInitialize == ~initialized

IdleCall ==
    [method |-> "none", input |-> Undefined, pc |-> "idle", outputs |-> <<>>,
     seen |-> <<>>, result |-> Undefined]

\* what a conversion reads from the converter
Snapshot ==
    [mappings |-> customMappings, initialized |-> initialized,
     gbLoaded |-> ~gbDictionary.isNull, usLoaded |-> ~usDictionary.isNull]

\* one turn of the conversions of a call
RunLeaves(call) ==
    LET leaves == Leaves(call.input)
        k == Len(call.outputs)
        n == LeavesPerTurn(Len(leaves) - k)
        outs == call.outputs \o [i \in 1..n |-> ConvertText(leaves[k + i])]
    IN  [call EXCEPT !.outputs = outs,
                     !.seen = call.seen \o [i \in 1..n |-> Snapshot],
                     !.pc = IF k + n = Len(leaves) THEN "resolved" ELSE "walk",
                     !.result = IF k + n = Len(leaves)
                                THEN Rebuild(call.input, outs)
                                ELSE Undefined]

DecimalDigits == <<"0","1","2","3","4","5","6","7","8","9">>

\* a property key that is the canonical decimal form of an integer
IsArrayIndex(key) ==
    /\ key # <<>>
    /\ \A i \in DOMAIN key : key[i] \in Digits
    /\ Len(key) > 1 => key[1] # "0"

RECURSIVE IndexValue(_)
IndexValue(key) ==
    IF key = <<>>
    THEN 0
    ELSE 10 * IndexValue(SubSeq(key, 1, Len(key) - 1))
         + (CHOOSE d \in 0..9 : DecimalDigits[d + 1] = key[Len(key)])

\* this.customMappings[from] = to; an object lists its integer keys first, in
\* ascending order, and its other keys in the order of their creation
SetEntry(table, from, to) ==
    IF from \in Keys(table)
    THEN [i \in DOMAIN table |-> IF table[i][1] = from THEN <<from, to>> ELSE table[i]]
    ELSE IF IsArrayIndex(from)
         THEN LET smaller == {i \in DOMAIN table :
                                 /\ IsArrayIndex(table[i][1])
                                 /\ IndexValue(table[i][1]) < IndexValue(from)}
                  k == Cardinality(smaller)
              IN  SubSeq(table, 1, k) \o << <<from, to>> >> \o SubSeq(table, k + 1, Len(table))
         ELSE Append(table, <<from, to>>)

\* delete this.customMappings[from]
DeleteEntry(table, from) ==
    LET keep(entry) == entry[1] # from
    IN  SelectSeq(table, keep)

hue == <<"h","u","e">>

AsyncKeys == { color }

AsyncReplacements == { hue, postcode }

\* the calls made on the converter
AsyncRequests ==
    { [method |-> "initialize", input |-> Undefined],
      [method |-> "convert", input |-> StringLeaf(color)],
      [method |-> "convertObject",
       input |-> ArrayOf(<<StringLeaf(color),
                           ObjectOf(<< << <<"b">>, StringLeaf(<<"C","o","l","o","r">>) >> >>)>>)] }

InitAsync ==
    /\ phraseMap = << <<zipCode, postcode>> >>
    /\ exceptionsMap = <<>>
    /\ translator = << <<color, colour>> >>
    /\ Constructed
    /\ corrections = <<>>
    /\ correctionsFile = [readable |-> FALSE, entries |-> <<>>]
    /\ calls = [c \in CallIds |-> IdleCall]
    /\ loads = [dictionaries |-> 0, corrections |-> 0]
    /\ listening = FALSE
    /\ op = "start"
    /\ arg = <<>>
    /\ ret = <<>>

\* the first turn of initialize(), convert(text) or convertObject(value)
Invoke(c, request) ==
    /\ calls[c].pc = "idle"
    /\ LET call == [IdleCall EXCEPT !.method = request.method,
                                    !.input = request.input]
       IN  calls' = [calls EXCEPT ![c] =
               IF request.method = "initialize"
               THEN [call EXCEPT !.pc = IF initialized THEN "resolved" ELSE "import"]
               ELSE IF AwaitsInitialize
                    THEN [call EXCEPT !.pc = "import"]
                    ELSE RunLeaves(call)]
    /\ UNCHANGED <<converterVars, correctionsFile, loads, listening, op, arg, ret>>

\* initialize, after import('cspell-lib'): both getDictionary calls are made
ImportResolves(c) ==
    /\ calls[c].pc = "import"
    /\ calls' = [calls EXCEPT ![c].pc = "load"]
    /\ loads' = [loads EXCEPT !.dictionaries = @ + 1]
    /\ UNCHANGED <<converterVars, correctionsFile, listening, op, arg, ret>>

\* initialize, after Promise.all: the three assignments
LoadResolves(c) ==
    /\ calls[c].pc = "load"
    /\ gbDictionary' = LoadedDictionary(GbWords)
    /\ usDictionary' = LoadedDictionary(UsWords)
    /\ initialized' = TRUE
    /\ calls' = [calls EXCEPT ![c].pc =
                    IF calls[c].method = "initialize" THEN "resolved" ELSE "resume"]
    /\ UNCHANGED <<phraseMap, exceptionsMap, customMappings, corrections, translator,
                   correctionsFile, loads, listening, op, arg, ret>>

\* getDictionary rejects: initialize rejects, and with it the call that awaits it
LoadRejects(c) ==
    /\ calls[c].pc = "load"
    /\ calls' = [calls EXCEPT ![c].pc = "rejected"]
    /\ UNCHANGED <<converterVars, correctionsFile, loads, listening, op, arg, ret>>

\* the turn of convert or convertObject after an await
Continuation(c) ==
    /\ calls[c].pc \in {"resume", "walk"}
    /\ calls' = [calls EXCEPT ![c] = RunLeaves(calls[c])]
    /\ UNCHANGED <<converterVars, correctionsFile, loads, listening, op, arg, ret>>

AddCustomMapping(from, to) ==
    /\ customMappings' = SetEntry(customMappings, from, to)
    /\ UNCHANGED <<phraseMap, exceptionsMap, corrections, gbDictionary, usDictionary,
                   initialized, translator, processVars, op, arg, ret>>

RemoveCustomMapping(from) ==
    /\ customMappings' = DeleteEntry(customMappings, from)
    /\ UNCHANGED <<phraseMap, exceptionsMap, corrections, gbDictionary, usDictionary,
                   initialized, translator, processVars, op, arg, ret>>

ClearCustomMappings ==
    /\ customMappings' = <<>>
    /\ UNCHANGED <<phraseMap, exceptionsMap, corrections, gbDictionary, usDictionary,
                   initialized, translator, processVars, op, arg, ret>>

NextAsync ==
    \/ \E c \in CallIds, request \in AsyncRequests : Invoke(c, request)
    \/ \E c \in CallIds : ImportResolves(c)
    \/ \E c \in CallIds : LoadResolves(c)
    \/ \E c \in CallIds : LoadRejects(c)
    \/ \E c \in CallIds : Continuation(c)
    \/ \E from \in AsyncKeys, to \in AsyncReplacements : AddCustomMapping(from, to)
    \/ \E from \in AsyncKeys : RemoveCustomMapping(from)
    \/ ClearCustomMappings

SpecAsync == InitAsync /\ [][NextAsync]_vars

\* the conversion of the leaves of a value against one table
LeavesUnder(value, table) ==
    LET leaves == Leaves(value)
    IN  [i \in DOMAIN leaves |->
            Convert(leaves[i], phraseMap, exceptionsMap, table, translator,
                    LoadedDictionary(GbWords), LoadedDictionary(UsWords))]

\* C12: table updates are atomic for readers: in every call of convert or
\* convertObject all string leaves are converted against one and the same table
\* (the custom mappings as they were at one moment, between two updates), and the
\* value the call resolves to is the conversion of its input against that table.
C12_OneSnapshotPerCall ==
    \A c \in CallIds :
        LET call == calls[c]
        IN  /\ \A i, j \in DOMAIN call.seen :
                  call.seen[i].mappings = call.seen[j].mappings
            /\ call.pc = "resolved" /\ call.method # "initialize"
                  => /\ Len(call.seen) = Len(Leaves(call.input))
                     /\ call.result =
                           Rebuild(call.input,
                                   LeavesUnder(call.input, call.seen[1].mappings))

\* a convertObject call, invoked before the mappings were set, converted both of
\* its leaves under the mapping color -> hue, which has been removed since
C12_Witness ==
    \E c \in CallIds :
        /\ calls[c].method = "convertObject"
        /\ calls[c].pc = "resolved"
        /\ calls[c].outputs = <<hue, <<"H","u","e">> >>
        /\ calls[c].seen[1].mappings = << <<color, hue>> >>
        /\ customMappings = <<>>

\* C13: the dictionaries are loaded at most once in the life of a converter.
C13_LoadAtMostOnce == loads.dictionaries <= 1

\* C14: no conversion runs against partial dictionary state: `initialized` is
\* never true while a dictionary is null, and every conversion of every call
\* reads `initialized` true and both dictionaries loaded.
C14_NoPartialDictionaryState ==
    /\ initialized => ~gbDictionary.isNull /\ ~usDictionary.isNull
    /\ \A c \in CallIds : \A i \in DOMAIN calls[c].seen :
          /\ calls[c].seen[i].initialized
          /\ calls[c].seen[i].gbLoaded
          /\ calls[c].seen[i].usLoaded

\* two calls were made before the converter was initialized; one has converted
\* its text while the load started by the other is still under way
C14_Witness ==
    \E c, d \in CallIds :
        /\ calls[c].method = "convert"
        /\ calls[c].pc = "resolved"
        /\ calls[c].result = StringLeaf(colour)
        /\ calls[d].pc = "load"
        /\ loads.dictionaries = 2

----------------------------------------------------------------------------
(* The server over the converter with persisted corrections: startServer,  *)
(* then the operations on the corrections, each a memory update followed   *)
(* by the write of data/corrections.json.  Call 0 is startServer; a call   *)
(* is [method, from, to, mappings, pc, snapshot, failed]:                  *)
(*   pc        "idle", "read" (initialize awaits fs.readFile), "import",   *)
(*             "load", "resume" (initialize has resolved), "listening",    *)
(*             "exited"; of an operation: "write" (saveCorrections awaits  *)
(*             fs.writeFile), "resolved", "rejected"                       *)
(*   snapshot  JSON.stringify(this.corrections) as handed to fs.writeFile  *)
(*   failed    the load of the corrections (call 0) or the write failed    *)

MaxOps == 2

OpIds == 1..MaxOps

IdleOp ==
    [method |-> "none", from |-> <<>>, to |-> <<>>, mappings |-> <<>>,
     pc |-> "idle", snapshot |-> <<>>, failed |-> FALSE]

Request(method, from, to, mappings) ==
    [IdleOp EXCEPT !.method = method, !.from = from, !.to = to, !.mappings = mappings]

\* the operations clients ask for
CorrectionRequests ==
    { Request("addCorrection", color, hue, <<>>),
      Request("addCorrections", <<>>, <<>>, << <<colour, hue>>, <<color, colour>> >>),
      Request("removeCorrection", color, <<>>, <<>>),
      Request("clearCorrections", <<>>, <<>>, <<>>) }

\* { ...this.corrections, ...mappings }: the first k entries of mappings spread in
RECURSIVE Spread(_, _, _)
Spread(table, mappings, k) ==
    IF k = 0
    THEN table
    ELSE SetEntry(Spread(table, mappings, k - 1), mappings[k][1], mappings[k][2])

\* the assignment to this.corrections each operation starts with
UpdateCorrections(table, request) ==
    CASE request.method = "addCorrection" -> SetEntry(table, request.from, request.to)
      [] request.method = "addCorrections" ->
             Spread(table, request.mappings, Len(request.mappings))
      [] request.method = "removeCorrection" -> DeleteEntry(table, request.from)
      [] request.method = "clearCorrections" -> <<>>

\* a missing or unparsable corrections file
Unreadable == [readable |-> FALSE, entries |-> <<>>]

FileOf(table) == [readable |-> TRUE, entries |-> table]

\* initialize: JSON.parse of the file, or {} from the catch block
LoadCorrections(file) == IF file.readable THEN file.entries ELSE <<>>

\* a saveCorrections that logs the error of the write and returns
SaveOutcome_Swallowed(written) == "resolved"

\* saveCorrections: the error of fs.writeFile is logged and thrown again
SaveOutcome(written) == IF written THEN "resolved" ELSE "rejected"

InitServer ==
    /\ phraseMap = <<>>
    /\ exceptionsMap = <<>>
    /\ translator = << <<color, colour>> >>
    /\ Constructed
    /\ corrections = <<>>
    /\ correctionsFile \in { Unreadable, FileOf(<<>>), FileOf(<< <<color, hue>> >>) }
    /\ calls = [c \in {0} \cup OpIds |-> IdleOp]
    /\ loads = [dictionaries |-> 0, corrections |-> 0]
    /\ listening = FALSE
    /\ op = "start"
    /\ arg = <<>>
    /\ ret = <<>>

\* startServer calls converter.initialize(), which starts to read the file
StartServer ==
    /\ calls[0].pc = "idle"
    /\ calls' = [calls EXCEPT ![0].method = "startServer", ![0].pc = "read"]
    /\ loads' = [loads EXCEPT !.corrections = @ + 1]
    /\ UNCHANGED <<converterVars, correctionsFile, listening, op, arg, ret>>

\* initialize, after fs.readFile has settled: the try block or its catch
CorrectionsRead ==
    /\ calls[0].pc = "read"
    /\ corrections' = LoadCorrections(correctionsFile)
    /\ calls' = [calls EXCEPT ![0].pc = "import",
                              ![0].failed = ~correctionsFile.readable]
    /\ UNCHANGED <<phraseMap, exceptionsMap, customMappings, gbDictionary,
                   usDictionary, initialized, translator, correctionsFile, loads,
                   listening, op, arg, ret>>

ServerImportResolves ==
    /\ calls[0].pc = "import"
    /\ calls' = [calls EXCEPT ![0].pc = "load"]
    /\ loads' = [loads EXCEPT !.dictionaries = @ + 1]
    /\ UNCHANGED <<converterVars, correctionsFile, listening, op, arg, ret>>

ServerLoadResolves ==
    /\ calls[0].pc = "load"
    /\ gbDictionary' = LoadedDictionary(GbWords)
    /\ usDictionary' = LoadedDictionary(UsWords)
    /\ initialized' = TRUE
    /\ calls' = [calls EXCEPT ![0].pc = "resume"]
    /\ UNCHANGED <<phraseMap, exceptionsMap, customMappings, corrections, translator,
                   correctionsFile, loads, listening, op, arg, ret>>

\* process.exit(1)
ExitStatus == 1

\* getDictionary rejects: initialize rejects and startServer exits the process
ServerLoadRejects ==
    /\ calls[0].pc = "load"
    /\ calls' = [calls EXCEPT ![0].pc = "exited"]
    /\ op' = "process.exit"
    /\ arg' = ExitStatus
    /\ UNCHANGED <<converterVars, correctionsFile, loads, listening, ret>>

\* a startServer that calls app.listen without awaiting initialize
MayListen_Unawaited(pc) == pc \in {"read", "import", "load", "resume"}

\* app.listen follows `await converter.initialize()` in the try block
MayListen(pc) == pc = "resume"

\* startServer, after await converter.initialize(): app.listen
Listen ==
    /\ MayListen(calls[0].pc)
    /\ listening' = TRUE
    /\ calls' = [calls EXCEPT ![0].pc = "listening"]
    /\ UNCHANGED <<converterVars, correctionsFile, loads, op, arg, ret>>

\* a conversion request served by the listening server
ServeConvert(text) ==
    /\ listening
    /\ op' = "convert"
    /\ arg' = text
    /\ ret' = ConvertWithCorrections(text, corrections, translator,
                                     gbDictionary, usDictionary)
    /\ UNCHANGED <<converterVars, processVars>>

\* app.get('/health', ...) on the listening server
ServeHealth ==
    /\ listening
    /\ op' = "GET /health"
    /\ arg' = <<>>
    /\ ret' = [status |-> "ok", initialized |-> initialized]
    /\ UNCHANGED <<converterVars, processVars>>

\* addCorrection, addCorrections, removeCorrection, clearCorrections up to their
\* await: the update of this.corrections and the call of fs.writeFile
Operation(o, request) ==
    /\ calls[o].pc = "idle"
    /\ corrections' = UpdateCorrections(corrections, request)
    /\ calls' = [calls EXCEPT ![o] = [request EXCEPT !.pc = "write",
                                                     !.snapshot = corrections']]
    /\ UNCHANGED <<phraseMap, exceptionsMap, customMappings, gbDictionary,
                   usDictionary, initialized, translator, correctionsFile, loads,
                   listening, op, arg, ret>>

\* an operation asked for through the listening server
BeginOperation(o, request) == listening /\ Operation(o, request)

\* fs.writeFile resolves: the file holds the text it was handed
WriteResolves(o) ==
    /\ calls[o].pc = "write"
    /\ correctionsFile' = FileOf(calls[o].snapshot)
    /\ calls' = [calls EXCEPT ![o].pc = SaveOutcome(TRUE)]
    /\ UNCHANGED <<converterVars, loads, listening, op, arg, ret>>

\* fs.writeFile rejects, having left the file as it was or truncated it
WriteRejects(o) ==
    /\ calls[o].pc = "write"
    /\ correctionsFile' \in {correctionsFile, Unreadable}
    /\ calls' = [calls EXCEPT ![o].pc = SaveOutcome(FALSE), ![o].failed = TRUE]
    /\ UNCHANGED <<converterVars, loads, listening, op, arg, ret>>

NextServer ==
    \/ StartServer
    \/ CorrectionsRead
    \/ ServerImportResolves
    \/ ServerLoadResolves
    \/ ServerLoadRejects
    \/ Listen
    \/ ServeConvert(color)
    \/ ServeHealth
    \/ \E o \in OpIds, request \in CorrectionRequests : BeginOperation(o, request)
    \/ \E o \in OpIds : WriteResolves(o)
    \/ \E o \in OpIds : WriteRejects(o)

SpecServer == InitServer /\ [][NextServer]_vars

\* C15: a failure to load the corrections file is fatal at startup: initialize
\* does not complete, the server does not listen and no conversion is served.
C15_LoadFailureFatal ==
    calls[0].failed => ~initialized /\ ~listening /\ op # "convert"

\* C25: the server listens only after initialize has completed: while it listens
\* the converter is initialized with both dictionaries loaded, every conversion
\* and every health report it serves comes from an initialized converter, and
\* when the dictionary load fails the process exits with a non-zero status and
\* does not listen.
C25_ListenAfterInitialize ==
    /\ listening => initialized /\ ~gbDictionary.isNull /\ ~usDictionary.isNull
    /\ op = "convert" => initialized
    /\ op = "GET /health" => ret = [status |-> "ok", initialized |-> TRUE]
    /\ calls[0].pc = "exited"
          => ~listening /\ ~initialized /\ op = "process.exit" /\ arg # 0

\* the server listens and has served a conversion
C25_Witness ==
    /\ listening
    /\ calls[0].pc = "listening"
    /\ op = "convert"
    /\ arg = color
    /\ ret = colour

\* the table shows the update the operation asked for
Reflects(table, request) ==
    CASE request.method = "addCorrection" ->
             request.from \in Keys(table) /\ Lookup(table, request.from) = request.to
      [] request.method = "addCorrections" ->
             \A i \in DOMAIN request.mappings :
                 /\ request.mappings[i][1] \in Keys(table)
                 /\ Lookup(table, request.mappings[i][1]) = request.mappings[i][2]
      [] request.method = "removeCorrection" -> request.from \notin Keys(table)
      [] request.method = "clearCorrections" -> table = <<>>

\* C16: when the write of the corrections file fails, the promise of the
\* operation rejects, and the corrections in memory keep the update (seen while
\* no other operation has been asked for).
C16_WriteFailureSurfaced ==
    \A o \in OpIds :
        calls[o].failed
            => /\ calls[o].pc = "rejected"
               /\ (\A p \in OpIds \ {o} : calls[p].pc = "idle")
                     => /\ Reflects(corrections, calls[o])
                        /\ corrections = calls[o].snapshot

\* addCorrection("color", "hue") was rejected: the table has the entry, the file,
\* which was empty, does not
C16_Witness ==
    \E o \in OpIds :
        /\ calls[o].method = "addCorrection"
        /\ calls[o].failed
        /\ calls[o].pc = "rejected"
        /\ corrections = << <<color, hue>> >>
        /\ correctionsFile = FileOf(<<>>)

\* C17: once every operation asked for has resolved, the corrections file holds
\* the corrections in memory: a converter that initializes from the file gets
\* the same table.
C17_FileHoldsTable ==
    /\ \A o \in OpIds : calls[o].pc \in {"idle", "resolved"}
    /\ \E o \in OpIds : calls[o].pc = "resolved"
    => /\ correctionsFile.readable
       /\ LoadCorrections(correctionsFile) = corrections

----------------------------------------------------------------------------
(* convertObject over objects in memory.  The heap is the list of the      *)
(* arrays and objects allocated so far, a container's address its index;   *)
(* a slot of a container (an element, or the value of an entry) is a leaf  *)
(* value or the reference [type |-> "ref", v |-> address] to a container.  *)

Ref(address) == [type |-> "ref", v |-> address]

\* the value of a JSON text as objects in memory: [heap, slot]
RECURSIVE Store(_, _), StoreAll(_, _, _)

\* the first k of the values stored, one after the other
StoreAll(heap, values, k) ==
    IF k = 0
    THEN [heap |-> heap, slots |-> <<>>]
    ELSE LET earlier == StoreAll(heap, values, k - 1)
             stored == Store(earlier.heap, values[k])
         IN  [heap |-> stored.heap, slots |-> Append(earlier.slots, stored.slot)]

Store(heap, value) ==
    IF value.type \in {"array", "object"}
    THEN LET children == IF value.type = "array"
                         THEN value.v
                         ELSE [i \in DOMAIN value.v |-> value.v[i][2]]
             stored == StoreAll(heap, children, Len(children))
             cell == IF value.type = "array"
                     THEN ArrayOf(stored.slots)
                     ELSE ObjectOf([i \in DOMAIN value.v |->
                                      <<value.v[i][1], stored.slots[i]>>])
         IN  [heap |-> Append(stored.heap, cell), slot |-> Ref(Len(stored.heap) + 1)]
    ELSE [heap |-> heap, slot |-> value]

\* the JSON value a slot stands for
RECURSIVE Load(_, _)
Load(heap, slot) ==
    IF slot.type = "ref"
    THEN LET cell == heap[slot.v]
         IN  IF cell.type = "array"
             THEN ArrayOf([i \in DOMAIN cell.v |-> Load(heap, cell.v[i])])
             ELSE ObjectOf([i \in DOMAIN cell.v |->
                              <<cell.v[i][1], Load(heap, cell.v[i][2])>>])
    ELSE slot

RECURSIVE WalkSlot(_, _), WalkSlots(_, _, _), WalkCell(_, _)

\* value.map((item) => this.walkAsync(item, transform)): the first k slots walked
WalkSlots(heap, slots, k) ==
    IF k = 0
    THEN [heap |-> heap, slots |-> <<>>]
    ELSE LET earlier == WalkSlots(heap, slots, k - 1)
             walked == WalkSlot(earlier.heap, slots[k])
         IN  [heap |-> walked.heap, slots |-> Append(earlier.slots, walked.slot)]

\* a walker that stores the walked elements and entries in the container it was
\* given
WalkCell_InPlace(heap, address) ==
    LET cell == heap[address]
        children == IF cell.type = "array"
                    THEN cell.v
                    ELSE [i \in DOMAIN cell.v |-> cell.v[i][2]]
        walked == WalkSlots(heap, children, Len(children))
        result == IF cell.type = "array"
                  THEN ArrayOf(walked.slots)
                  ELSE ObjectOf([i \in DOMAIN cell.v |-> <<cell.v[i][1], walked.slots[i]>>])
    IN  [heap |-> [walked.heap EXCEPT ![address] = result], slot |-> Ref(address)]

\* walkAsync on an array or an object: the array Promise.all resolves to, or
\* the object Object.fromEntries builds, is a new one
WalkCell(heap, address) ==
    LET cell == heap[address]
        children == IF cell.type = "array"
                    THEN cell.v
                    ELSE [i \in DOMAIN cell.v |-> cell.v[i][2]]
        walked == WalkSlots(heap, children, Len(children))
        result == IF cell.type = "array"
                  THEN ArrayOf(walked.slots)
                  ELSE ObjectOf([i \in DOMAIN cell.v |-> <<cell.v[i][1], walked.slots[i]>>])
    IN  [heap |-> Append(walked.heap, result), slot |-> Ref(Len(walked.heap) + 1)]

\* walkAsync(value, (text) => this.convert(text))
WalkSlot(heap, slot) ==
    IF slot.type = "ref"
    THEN WalkCell(heap, slot.v)
    ELSE [heap |-> heap,
          slot |-> IF slot.type = "string" THEN StringLeaf(ConvertText(slot.v)) ELSE slot]

MaxHeapNodes == 3

InitHeap ==
    /\ phraseMap = << <<zipCode, postcode>> >>
    /\ exceptionsMap = <<>>
    /\ customMappings = <<>>
    /\ translator = << <<color, colour>> >>
    /\ Loaded(GbWords, UsWords)
    /\ corrections = <<>>
    /\ NoProcess
    /\ op = "start"
    /\ arg \in {Store(<<>>, value) : value \in JsonValuesUpTo(MaxHeapNodes)}
    /\ ret = <<>>

ConvertObjectInMemory ==
    /\ op = "start"
    /\ op' = "convertObject"
    /\ ret' = WalkSlot(arg.heap, arg.slot)
    /\ UNCHANGED <<arg, converterVars, processVars>>

NextHeap == ConvertObjectInMemory

SpecHeap == InitHeap /\ [][NextHeap]_vars

\* the addresses of the containers reachable from a slot
RECURSIVE Reachable(_, _)
Reachable(heap, slot) ==
    IF slot.type = "ref"
    THEN LET cell == heap[slot.v]
         IN  {slot.v} \cup UNION {Reachable(heap, IF cell.type = "array"
                                                  THEN cell.v[i]
                                                  ELSE cell.v[i][2]) : i \in DOMAIN cell.v}
    ELSE {}

\* C22: convertObject does not mutate its input: every container of the input is
\* afterwards what it was, no container of the result is a container of the
\* input, and the result is the converted value.
C22_InputNotMutated ==
    op = "convertObject" =>
        /\ \A a \in DOMAIN arg.heap : ret.heap[a] = arg.heap[a]
        /\ Reachable(ret.heap, ret.slot) \cap DOMAIN arg.heap = {}
        /\ Load(ret.heap, ret.slot) = WalkAsync(Load(arg.heap, arg.slot))

\* an array holding an array of a string that convert changes: two containers
\* before the call, four after it, the two of the input as they were
C22_Witness ==
    /\ op = "convertObject"
    /\ Load(arg.heap, arg.slot) = ArrayOf(<<ArrayOf(<<StringLeaf(organize)>>)>>)
    /\ Len(arg.heap) = 2
    /\ Len(ret.heap) = 4
    /\ Load(ret.heap, arg.slot) = ArrayOf(<<ArrayOf(<<StringLeaf(organize)>>)>>)
    /\ Load(ret.heap, ret.slot) = ArrayOf(<<ArrayOf(<<StringLeaf(organise)>>)>>)

----------------------------------------------------------------------------
(* POST /mappings.  The body of a request is [mappings], a JSON value or   *)
(* undefined; the response is the status, the message and, on success, the *)
(* copy of the table that getCustomMappings returns.                       *)

RECURSIVE IndexKey(_)
\* String(n)
IndexKey(n) ==
    IF n < 10 THEN <<DecimalDigits[n + 1]>>
    ELSE IndexKey(n \div 10) \o <<DecimalDigits[(n % 10) + 1]>>

\* Object.entries(value) of an object or an array
ObjectEntries(value) ==
    IF value.type = "array"
    THEN [i \in DOMAIN value.v |-> <<IndexKey(i - 1), value.v[i]>>]
    ELSE value.v

RECURSIVE AddPairs(_, _, _)
\* for (const [from, to] of Object.entries(mappings)): the keys are strings, a
\* value that is not a string ends the loop with the 400 response, and the
\* pairs before it have been added
AddPairs(table, entries, k) ==
    IF k > Len(entries)
    THEN [status |-> 200, message |-> "Custom mappings added successfully",
          table |-> table]
    ELSE IF TypeOf(entries[k][2]) # "string"
         THEN [status |-> 400, message |-> "All mapping keys and values must be strings",
               table |-> table]
         ELSE AddPairs(SetEntry(table, entries[k][1], entries[k][2].v), entries, k + 1)

\* app.post('/mappings', ...): the response and the table it leaves
PostMappingsHandler(body, table) ==
    IF ~Truthy(body.mappings) \/ TypeOf(body.mappings) # "object"
    THEN [status |-> 400,
          message |-> "\"mappings\" must be an object with from-to word pairs",
          table |-> table]
    ELSE AddPairs(table, ObjectEntries(body.mappings), 1)

MaxMappingNodes == 3

InitMappings ==
    /\ phraseMap = << <<zipCode, postcode>> >>
    /\ exceptionsMap = <<>>
    /\ customMappings \in { <<>>, << <<color, hue>> >> }
    /\ translator = << <<color, colour>> >>
    /\ Loaded(GbWords, UsWords)
    /\ corrections = <<>>
    /\ NoProcess
    /\ op = "start"
    /\ arg \in [mappings : {Undefined} \cup FalsyLeaves \cup JsonValuesUpTo(MaxMappingNodes)]
    /\ ret = <<>>

PostMappings ==
    /\ op = "start"
    /\ op' = "POST /mappings"
    /\ LET response == PostMappingsHandler(arg, customMappings)
       IN  /\ customMappings' = response.table
           /\ ret' = [status |-> response.status, message |-> response.message,
                      mappings |-> IF response.status = 200 THEN response.table ELSE <<>>]
    /\ UNCHANGED <<arg, phraseMap, exceptionsMap, corrections, gbDictionary,
                   usDictionary, initialized, translator, processVars>>

NextMappings == PostMappings

SpecMappings == InitMappings /\ [][NextMappings]_vars

\* C27: a POST /mappings request answered with status 400 leaves the custom
\* mapping table as it was before the request.
C27_RejectedRequestAddsNothing ==
    [][PostMappings /\ ret'.status = 400 => customMappings' = customMappings]_vars

----------------------------------------------------------------------------
(* The converter with persisted corrections used as a library: convert is  *)
(* called on the converter as constructed, and the operations on the       *)
(* corrections are called around it.  Call 0 is the convert call; its pc   *)
(* is "idle", "read", "import", "load", "resume" (initialize has           *)
(* resolved), "resolved" or "rejected".                                    *)

\* convert(text) up to its await: `if (!this.initialized) await
\* this.initialize()`, and initialize starts to read the corrections file
ConvertInvoke(text) ==
    /\ calls[0].pc = "idle"
    /\ ~initialized
    /\ calls' = [calls EXCEPT ![0].method = "convert", ![0].pc = "read"]
    /\ loads' = [loads EXCEPT !.corrections = @ + 1]
    /\ arg' = text
    /\ UNCHANGED <<converterVars, correctionsFile, listening, op, ret>>

\* getDictionary rejects: initialize rejects and so does convert
ConvertLoadRejects ==
    /\ calls[0].pc = "load"
    /\ calls' = [calls EXCEPT ![0].pc = "rejected", ![0].failed = TRUE]
    /\ UNCHANGED <<converterVars, correctionsFile, loads, listening, op, arg, ret>>

\* convert, after await this.initialize(): the stages of the conversion
ConvertResume ==
    /\ calls[0].pc = "resume"
    /\ calls' = [calls EXCEPT ![0].pc = "resolved"]
    /\ op' = "convert"
    /\ ret' = ConvertWithCorrections(arg, corrections, translator,
                                     gbDictionary, usDictionary)
    /\ UNCHANGED <<arg, converterVars, correctionsFile, loads, listening>>

NextLazy ==
    \/ ConvertInvoke(color)
    \/ CorrectionsRead
    \/ ServerImportResolves
    \/ ServerLoadResolves
    \/ ConvertLoadRejects
    \/ ConvertResume
    \/ \E o \in OpIds, request \in CorrectionRequests : Operation(o, request)
    \/ \E o \in OpIds : WriteResolves(o)
    \/ \E o \in OpIds : WriteRejects(o)

SpecLazy == InitServer /\ [][NextLazy]_vars

\* an add, remove or clear operation has assigned the corrections table
TableAssigned == \E o \in OpIds : calls[o].pc # "idle"

\* C28: no step of a convert call changes the phrase map, the exceptions map,
\* the custom mappings, the contents of a dictionary that has been loaded, or a
\* corrections table that an add, remove or clear operation has assigned.
C28_ConversionReadsOnly ==
    [][calls'[0] # calls[0] =>
          /\ phraseMap' = phraseMap
          /\ exceptionsMap' = exceptionsMap
          /\ customMappings' = customMappings
          /\ ~gbDictionary.isNull => gbDictionary' = gbDictionary
          /\ ~usDictionary.isNull => usDictionary' = usDictionary
          /\ TableAssigned => corrections' = corrections]_vars

====
